---- MODULE Spec2Model ----
(***************************************************************************)
(* V4 Oracle Predict (src/app.py): the game rules of OriginalGameLogic and *)
(* the session state the "Predict Now!" and "Reset Simulation" handlers    *)
(* mutate.                                                                 *)
(*                                                                         *)
(* Money is counted in hundredths of a token, so that the 1% jackpot       *)
(* contribution and the 10/20/50% streak bonuses of whole-token bets are   *)
(* integers; rates are kept in percent.  A string is a sequence of         *)
(* one-character strings.                                                  *)
(***************************************************************************)
EXTENDS Integers, Sequences, FiniteSets, TLC

VARIABLES
    v4_balance,       \* st.session_state.v4_balance
    v4_jackpot,       \* st.session_state.v4_jackpot
    v4_streak,        \* st.session_state.v4_streak
    v4_last_signals,  \* st.session_state.v4_last_signals, deque(maxlen=10)
    v4_history,       \* st.session_state.v4_history
    last,             \* the locals of the latest handler run
    rounds,           \* accepted bets since the last reset
    cw                \* one call of check_win: its arguments and its result

vars == <<v4_balance, v4_jackpot, v4_streak, v4_last_signals, v4_history,
          last, rounds, cw>>

session == <<v4_balance, v4_jackpot, v4_streak, v4_last_signals, v4_history>>

(***************************************************************************)
(* Amounts                                                                 *)
(***************************************************************************)
Tokens(n) == n * 100

INITIAL_BALANCE == 10000
INITIAL_JACKPOT == 5000
MIN_BET == 10
MAX_BET == 5000
SIGNALS_MAXLEN == 10
JACKPOT_CONTRIBUTION_RATE == 1

\* PAYOUTS, keyed by the internal game names
PAYOUTS ==
    [k \in {"Royal Single", "Golden Jodi", "Triple Crown", "Double Fortune",
            "Royal Flush"} |->
        CASE k = "Royal Single"   -> 10
          [] k = "Golden Jodi"    -> 90
          [] k = "Triple Crown"   -> 150
          [] k = "Double Fortune" -> 300
          [] k = "Royal Flush"    -> 500]

GameTypes == DOMAIN PAYOUTS

PatternTypes == {"Triple Crown", "Double Fortune", "Royal Flush"}

\* variant: the lookup misses the key and yields the default
get_payout_multiplier_default(internal_game_type) == 0

get_payout_multiplier(internal_game_type) ==
    IF internal_game_type \in DOMAIN PAYOUTS THEN PAYOUTS[internal_game_type] ELSE 0

\* STREAK_BONUSES as (streak, rate in percent) items
STREAK_BONUSES == {<<3, 10>>, <<5, 20>>, <<10, 50>>}

(***************************************************************************)
(* Strings and digits                                                      *)
(***************************************************************************)
DigitStr == <<"0", "1", "2", "3", "4", "5", "6", "7", "8", "9">>

DigitChars == {DigitStr[i] : i \in 1..10}

\* str(d) of one digit
StrOfDigit(d) == <<DigitStr[d + 1]>>

\* int(c) of one decimal character
IntOfChar(c) == CHOOSE d \in 0..9 : DigitStr[d + 1] = c

AllDigits(s) == \A i \in 1..Len(s) : s[i] \in DigitChars

\* int(s) succeeds on a non-empty run of decimal digits (the strings here hold
\* digits and letters only) and raises ValueError otherwise
IntParses(s) == Len(s) > 0 /\ AllDigits(s)

RECURSIVE IntOfStr(_)
IntOfStr(s) ==
    IF Len(s) = 0 THEN 0
    ELSE 10 * IntOfStr(SubSeq(s, 1, Len(s) - 1)) + IntOfChar(s[Len(s)])

\* variant: no padding
zfill_none(s, width) == s

\* str.zfill(width): pad with "0" on the left up to width
RECURSIVE zfill(_, _)
zfill(s, width) == IF Len(s) >= width THEN s ELSE zfill(<<"0">> \o s, width)

\* sorted(list of ints), by insertion
RECURSIVE Insert(_, _)
Insert(x, s) ==
    IF Len(s) = 0 THEN <<x>>
    ELSE IF x <= s[1] THEN <<x>> \o s
    ELSE <<s[1]>> \o Insert(x, Tail(s))

\* variant: the list is left in its order
sorted_not(s) == s

RECURSIVE sorted(_)
sorted(s) == IF Len(s) = 0 THEN <<>> ELSE Insert(s[1], sorted(Tail(s)))

\* Counter(list): value -> number of occurrences, over the values present
Counter(s) ==
    [v \in {s[i] : i \in 1..Len(s)} |-> Cardinality({i \in 1..Len(s) : s[i] = v})]

CounterValues(c) == {c[v] : v \in DOMAIN c}

Sum3(t) == t[1] + t[2] + t[3]

\* generate_draw: the signal of three digits
SignalOf(digits) == Sum3(digits) % 10

(***************************************************************************)
(* OriginalGameLogic.check_win                                             *)
(***************************************************************************)
Returned(b) == [raised |-> FALSE, value |-> b]

Raised == [raised |-> TRUE, value |-> FALSE]

\* "Royal Single": user_num = int(user_choice); user_num == sum1 or user_num == sum2
check_win_single(user_choice, sum1, sum2) ==
    IF ~IntParses(user_choice) THEN Raised
    ELSE LET user_num == IntOfStr(user_choice)
         IN  Returned(user_num = sum1 \/ user_num = sum2)

\* variant: the guess is compared with the sum of the two signals
check_win_jodi_sum(user_choice, sum1, sum2) ==
    LET total == sum1 + sum2
    IN  Returned(zfill(user_choice, 2)
                 = StrOfDigit(total \div 10) \o StrOfDigit(total % 10))

\* "Golden Jodi": str(user_choice).zfill(2) == str(sum1) + str(sum2)
check_win_jodi(user_choice, sum1, sum2) ==
    LET user_jodi_str   == zfill(user_choice, 2)
        actual_jodi_str == StrOfDigit(sum1) \o StrOfDigit(sum2)
    IN  Returned(user_jodi_str = actual_jodi_str)

\* the pattern test of one Counter for a pattern game type
pattern_of(internal_game_type, counts) ==
    CASE internal_game_type = "Triple Crown" ->
            Cardinality(DOMAIN counts) = 3
      [] internal_game_type = "Double Fortune" ->
            Cardinality(DOMAIN counts) = 2 /\ 2 \in CounterValues(counts)
      [] internal_game_type = "Royal Flush" ->
            Cardinality(DOMAIN counts) = 1
      [] OTHER -> FALSE

\* variant: each match is paired with the pattern test of the other feed
check_win_pattern_crossed(internal_game_type, user_choice, draw1_digits, draw2_digits) ==
    LET user_digits_str == zfill(user_choice, 3)
    IN  IF ~AllDigits(user_digits_str) THEN Raised
        ELSE LET user_digits_list_sorted ==
                     sorted([i \in 1..Len(user_digits_str) |->
                                 IntOfChar(user_digits_str[i])])
                 match1 == user_digits_list_sorted = sorted(draw1_digits)
                 match2 == user_digits_list_sorted = sorted(draw2_digits)
                 user_counts  == Counter(user_digits_list_sorted)
                 is_user_valid == pattern_of(internal_game_type, user_counts)
                 is_draw1_pattern_match ==
                     pattern_of(internal_game_type, Counter(draw1_digits))
                 is_draw2_pattern_match ==
                     pattern_of(internal_game_type, Counter(draw2_digits))
             IN  Returned(is_user_valid /\ ((match1 /\ is_draw2_pattern_match)
                                            \/ (match2 /\ is_draw1_pattern_match)))

\* "Triple Crown", "Double Fortune", "Royal Flush"
check_win_pattern(internal_game_type, user_choice, draw1_digits, draw2_digits) ==
    LET user_digits_str == zfill(user_choice, 3)
    IN  IF ~AllDigits(user_digits_str) THEN Raised
        ELSE LET user_digits_list_sorted ==
                     sorted([i \in 1..Len(user_digits_str) |->
                                 IntOfChar(user_digits_str[i])])
                 match1 == user_digits_list_sorted = sorted(draw1_digits)
                 match2 == user_digits_list_sorted = sorted(draw2_digits)
                 user_counts  == Counter(user_digits_list_sorted)
                 draw1_counts == Counter(draw1_digits)
                 draw2_counts == Counter(draw2_digits)
                 is_user_valid == pattern_of(internal_game_type, user_counts)
                 is_draw1_pattern_match == pattern_of(internal_game_type, draw1_counts)
                 is_draw2_pattern_match == pattern_of(internal_game_type, draw2_counts)
             IN  Returned(is_user_valid /\ ((match1 /\ is_draw1_pattern_match)
                                            \/ (match2 /\ is_draw2_pattern_match)))

\* the body of the try block
check_win_try(internal_game_type, user_choice, draw1_digits, sum1, draw2_digits, sum2) ==
    CASE internal_game_type = "Royal Single" ->
            check_win_single(user_choice, sum1, sum2)
      [] internal_game_type = "Golden Jodi" ->
            check_win_jodi(user_choice, sum1, sum2)
      [] internal_game_type \in PatternTypes ->
            check_win_pattern(internal_game_type, user_choice, draw1_digits, draw2_digits)
      [] OTHER -> Returned(FALSE)

\* try: ... except Exception: return False
check_win(internal_game_type, user_choice, draw1_digits, sum1, draw2_digits, sum2) ==
    LET r == check_win_try(internal_game_type, user_choice, draw1_digits, sum1,
                           draw2_digits, sum2)
    IN  IF r.raised THEN FALSE ELSE r.value

(***************************************************************************)
(* OriginalGameLogic.get_streak_bonus_multiplier, calculate_jackpot        *)
(***************************************************************************)
\* sorted(bonus_levels.items(), reverse=True)
RECURSIVE ItemsDescending(_)
ItemsDescending(items) ==
    IF items = {} THEN <<>>
    ELSE LET top == CHOOSE it \in items : \A o \in items : o[1] <= it[1]
         IN  <<top>> \o ItemsDescending(items \ {top})

\* for streak, rate in levels: if streak_count >= streak: bonus = rate; break
RECURSIVE FirstLevelMet(_, _)
FirstLevelMet(levels, streak_count) ==
    IF Len(levels) = 0 THEN 0
    ELSE IF streak_count >= levels[1][1] THEN levels[1][2]
    ELSE FirstLevelMet(Tail(levels), streak_count)

\* variant: the levels are walked in ascending order
get_streak_bonus_multiplier_ascending(streak_count) ==
    IF streak_count >= 3 THEN 10 ELSE 0

get_streak_bonus_multiplier(streak_count) ==
    FirstLevelMet(ItemsDescending(STREAK_BONUSES), streak_count)

\* variant: the whole bet is added, the rate forgotten
calculate_jackpot_whole_bet(current_jackpot, bet_amount) ==
    current_jackpot + bet_amount

\* variant: the contribution is taken from the jackpot
calculate_jackpot_taking(current_jackpot, bet_amount) ==
    current_jackpot - (bet_amount * JACKPOT_CONTRIBUTION_RATE) \div 100

\* current_jackpot + bet_amount * JACKPOT_CONTRIBUTION_RATE
calculate_jackpot(current_jackpot, bet_amount) ==
    current_jackpot + (bet_amount * JACKPOT_CONTRIBUTION_RATE) \div 100

\* amount * rate, the rate in percent (or a whole multiplier times 100)
PercentOf(amount, rate) == (amount * rate) \div 100

(***************************************************************************)
(* The session: state initialization and the two button handlers           *)
(***************************************************************************)
\* user_choice_input = None
NoChoice == <<"None">>

\* the conditional input widgets: the number input of "Royal Single" yields
\* a digit 0-9 (kept as its decimal string), the text inputs yield the text
\* only if it is all digits of the required length, and None otherwise
user_choice_input_of(internal_game_type, text) ==
    CASE internal_game_type = "Royal Single" -> text
      [] internal_game_type = "Golden Jodi" ->
            IF Len(text) > 0 /\ AllDigits(text) /\ Len(text) = 2 THEN text ELSE NoChoice
      [] internal_game_type \in PatternTypes ->
            IF Len(text) > 0 /\ AllDigits(text) /\ Len(text) = 3 THEN text ELSE NoChoice
      [] OTHER -> NoChoice

\* variant: the balance is not looked at
validation_error_no_balance(user_choice_input, bet_amount, balance) ==
    IF user_choice_input = NoChoice THEN "Invalid prediction input."
    ELSE IF ~(Tokens(MIN_BET) <= bet_amount /\ bet_amount <= Tokens(MAX_BET))
         THEN "Bet must be 10-5000 Tokens."
    ELSE ""

\* the input validation of "Predict Now!": the error message shown, "" when
\* the input is valid
validation_error(user_choice_input, bet_amount, balance) ==
    IF user_choice_input = NoChoice THEN "Invalid prediction input."
    ELSE IF ~(Tokens(MIN_BET) <= bet_amount /\ bet_amount <= Tokens(MAX_BET))
         THEN "Bet must be 10-5000 Tokens."
    ELSE IF bet_amount > balance THEN "Insufficient balance!"
    ELSE ""

valid_input_of(user_choice_input, bet_amount, balance) ==
    validation_error(user_choice_input, bet_amount, balance) = ""

\* deque(maxlen=10).append
deque_append(d, x) ==
    IF Len(d) >= SIGNALS_MAXLEN THEN Tail(d) \o <<x>> ELSE d \o <<x>>

\* ''.join(map(str, digits)) + "*" + str(sum)
draw_result(digits, sum) ==
    StrOfDigit(digits[1]) \o StrOfDigit(digits[2]) \o StrOfDigit(digits[3])
        \o <<"*">> \o StrOfDigit(sum)

\* How far the round body (the try block) runs.  The draw variables are set
\* to (None, -1, None, -1) before the spinner block that generates the draw:
\* when that block or the display of the draw raises, the except clause
\* reports it and the handler ends ("display"); "none" is the body running to
\* its end.
StopPoints == {"none", "display"}

\* the locals of a handler run that did no round
NoRound(op) ==
    [op |-> op, valid_input |-> FALSE, error |-> "", game_type |-> "none",
     bet_amount |-> 0, user_choice |-> <<>>, evaluated |-> FALSE, won |-> FALSE, winnings |-> 0,
     jackpot_win |-> FALSE, jackpot_win_amount |-> 0, bonus |-> 0,
     stopped_at |-> "none"]

\* variant: the game type is not looked at
jackpot_hit_any_type(internal_game_type, roll) == roll

\* the jackpot condition of the win branch
jackpot_hit(internal_game_type, roll) == internal_game_type = "Royal Flush" /\ roll

\* variant: a loss leaves the streak
streak_after_kept(streak, won) == IF won THEN streak + 1 ELSE streak

\* the streak after a round: v4_streak += 1 on a win, v4_streak = 0 on a loss
streak_after(streak, won) == IF won THEN streak + 1 ELSE 0

\* The round body (the try block of "Predict Now!") from the session s, as
\* far as the stop point lets it run: the session it leaves and its locals.
\* roll is random.random() < JACKPOT_WIN_CHANCE_ON_FLUSH.
RoundBody(s, internal_game_type, user_choice_input, bet_amount, draw1_digits, draw2_digits, roll, stop) ==
    LET sum1 == SignalOf(draw1_digits)
        sum2 == SignalOf(draw2_digits)
        \* Update Balance & Jackpot
        balance0 == s.balance - bet_amount
        jackpot0 == calculate_jackpot(s.jackpot, bet_amount)
        jodi_result == StrOfDigit(sum1) \o StrOfDigit(sum2)
        signals1 == deque_append(s.last_signals, jodi_result)
        fixed_payout_multiplier == get_payout_multiplier(internal_game_type)
        won == check_win(internal_game_type, user_choice_input,
                         draw1_digits, sum1, draw2_digits, sum2)
        \* win branch
        winnings == IF won THEN bet_amount * fixed_payout_multiplier ELSE 0
        balance1 == balance0 + winnings
        streak1  == streak_after(s.streak, won)
        hit == jackpot_hit(internal_game_type, roll)
        jackpot_win_amount == IF won /\ hit THEN jackpot0 ELSE 0
        balance2 == balance1 + jackpot_win_amount
        streak_bonus_mult == get_streak_bonus_multiplier(streak1)
        bonus == IF won /\ ~hit /\ streak_bonus_mult > 0
                 THEN PercentOf(bet_amount, streak_bonus_mult) ELSE 0
        balance3 == balance2 + bonus
        locals == [op |-> "predict", valid_input |-> TRUE, error |-> "",
                   game_type |-> internal_game_type, bet_amount |-> bet_amount,
                   user_choice |-> user_choice_input, evaluated |-> FALSE, won |-> FALSE, winnings |-> 0,
                   jackpot_win |-> FALSE, jackpot_win_amount |-> 0, bonus |-> 0,
                   stopped_at |-> stop]
        entry == [game_type |-> internal_game_type, user_choice |-> user_choice_input,
                  draw1_result |-> draw_result(draw1_digits, sum1),
                  draw2_result |-> draw_result(draw2_digits, sum2),
                  jodi |-> jodi_result, bet_amount |-> bet_amount, won |-> won,
                  payout |-> winnings + jackpot_win_amount,
                  balance_after |-> IF won THEN balance3 ELSE balance0]
    IN  IF stop = "display" THEN
            [balance |-> balance0, jackpot |-> jackpot0, streak |-> s.streak,
             last_signals |-> s.last_signals, history |-> s.history,
             locals |-> locals]
        ELSE IF won THEN
            [balance |-> balance3,
             jackpot |-> IF hit THEN Tokens(INITIAL_JACKPOT) ELSE jackpot0,
             streak |-> streak1, last_signals |-> signals1,
             history |-> Append(s.history, entry),
             locals |-> [locals EXCEPT !.evaluated = TRUE, !.won = TRUE,
                                       !.winnings = winnings, !.jackpot_win = hit,
                                       !.jackpot_win_amount = jackpot_win_amount,
                                       !.bonus = bonus]]
        ELSE
            [balance |-> balance0, jackpot |-> jackpot0, streak |-> streak1,
             last_signals |-> signals1, history |-> Append(s.history, entry),
             locals |-> [locals EXCEPT !.evaluated = TRUE]]

(***************************************************************************)
(* Inputs of the session runs                                              *)
(***************************************************************************)
\* accepted bets explored since a reset
MaxRounds == 3

\* bet amounts typed: below the minimum, an accepted amount, above the maximum
BetAmounts == {Tokens(5), Tokens(5000), Tokens(5010)}

\* what is entered in the prediction widget of a game type: a well-formed
\* prediction and, in the text inputs, malformed ones (too short, a letter,
\* nothing)
EntriesOf(internal_game_type) ==
    CASE internal_game_type = "Royal Single"   -> {<<"1">>}
      [] internal_game_type = "Golden Jodi"    -> {<<"1", "4">>, <<"7">>}
      [] internal_game_type = "Triple Crown"   -> {<<"1", "2", "3">>}
      [] internal_game_type = "Double Fortune" -> {<<"1", "1", "2">>, <<"1", "x", "2">>}
      [] internal_game_type = "Royal Flush"    -> {<<"7", "7", "7">>, <<>>}

\* the draws of the session runs: (feed 1, feed 2)
Draws == {<< <<7, 7, 7>>, <<2, 1, 1>> >>, << <<2, 1, 1>>, <<3, 1, 2>> >>}

SessionOf == [balance |-> v4_balance, jackpot |-> v4_jackpot, streak |-> v4_streak,
              last_signals |-> v4_last_signals, history |-> v4_history]

IdleCall == [pc |-> "idle", game_type |-> "none", user_choice |-> <<>>,
             draw1_digits |-> <<0, 0, 0>>, draw2_digits |-> <<0, 0, 0>>,
             result |-> FALSE]

\* Session State Initialization
InitSession ==
    /\ v4_balance = Tokens(INITIAL_BALANCE)
    /\ v4_history = <<>>
    /\ v4_last_signals = <<>>
    /\ v4_jackpot = Tokens(INITIAL_JACKPOT)
    /\ v4_streak = 0

Init ==
    /\ InitSession
    /\ last = NoRound("init")
    /\ rounds = 0
    /\ cw = IdleCall

\* "Predict Now!" with these inputs when they fail the validation: an error
\* message, nothing else
Rejected(internal_game_type, text, bet_amount) ==
    LET user_choice_input == user_choice_input_of(internal_game_type, text)
    IN  /\ UNCHANGED <<session, rounds, cw>>
        /\ ~valid_input_of(user_choice_input, bet_amount, v4_balance)
        /\ last' = [NoRound("predict") EXCEPT
                        !.error = validation_error(user_choice_input, bet_amount,
                                                   v4_balance)]

\* "Predict Now!" with these inputs when they pass the validation: the round
\* body, with this draw, this jackpot roll and this stop point
Accepted(internal_game_type, text, bet_amount, draw, roll, stop) ==
    LET user_choice_input == user_choice_input_of(internal_game_type, text)
        r == RoundBody(SessionOf, internal_game_type, user_choice_input,
                       bet_amount, draw[1], draw[2], roll, stop)
    IN  /\ valid_input_of(user_choice_input, bet_amount, v4_balance)
        /\ v4_balance' = r.balance
        /\ v4_jackpot' = r.jackpot
        /\ v4_streak' = r.streak
        /\ v4_last_signals' = r.last_signals
        /\ v4_history' = r.history
        /\ last' = r.locals
        /\ rounds' = rounds + 1
        /\ UNCHANGED cw

RejectBet ==
    \E internal_game_type \in GameTypes, bet_amount \in BetAmounts :
      \E text \in EntriesOf(internal_game_type) :
        Rejected(internal_game_type, text, bet_amount)

PlaceBet ==
    /\ rounds < MaxRounds
    /\ \E internal_game_type \in GameTypes, bet_amount \in BetAmounts :
      \E text \in EntriesOf(internal_game_type), draw \in Draws,
         roll \in BOOLEAN, stop \in StopPoints :
          Accepted(internal_game_type, text, bet_amount, draw, roll, stop)

\* variant: v4_jackpot is missing from keys_to_reset
Reset_keeping_jackpot ==
    /\ v4_balance' = Tokens(INITIAL_BALANCE)
    /\ v4_history' = <<>>
    /\ v4_last_signals' = <<>>
    /\ v4_streak' = 0
    /\ last' = NoRound("reset")
    /\ rounds' = 0
    /\ UNCHANGED <<v4_jackpot, cw>>

\* "Reset Simulation": the session keys are deleted, and the initialization
\* at the top of the next script run sets them anew
Reset ==
    /\ v4_balance' = Tokens(INITIAL_BALANCE)
    /\ v4_history' = <<>>
    /\ v4_last_signals' = <<>>
    /\ v4_jackpot' = Tokens(INITIAL_JACKPOT)
    /\ v4_streak' = 0
    /\ last' = NoRound("reset")
    /\ rounds' = 0
    /\ UNCHANGED cw

Next == PlaceBet \/ RejectBet \/ Reset

Spec == Init /\ [][Next]_vars

(***************************************************************************)
(* Long runs of one player: "Royal Single" bets of 1000 tokens on 1, each  *)
(* round run to its end, far enough for every streak bonus level           *)
(***************************************************************************)
MaxStreakRounds == 11

PlaceBetStreak ==
    /\ rounds < MaxStreakRounds
    /\ \E draw \in Draws, roll \in BOOLEAN :
          Accepted("Royal Single", <<"1">>, Tokens(1000), draw, roll, "none")

NextStreak == PlaceBetStreak \/ Reset

SpecStreak == Init /\ [][NextStreak]_vars

(***************************************************************************)
(* Properties of the session                                               *)
(***************************************************************************)
\* the step is a run of "Predict Now!" that passed the validation
AcceptedStep == last'.op = "predict" /\ last'.valid_input

\* the number of digits a game type asks for
DigitsAsked(kind) ==
    IF kind = "Royal Single" THEN 1 ELSE IF kind = "Golden Jodi" THEN 2 ELSE 3

\* a guess whose digit count or character set is not the one of its kind
Malformed(kind, text) ==
    \/ Len(text) # DigitsAsked(kind)
    \/ \E i \in 1..Len(text) :
          text[i] \notin {"0", "1", "2", "3", "4", "5", "6", "7", "8", "9"}

\* "Predict Now!" with these inputs, whatever the draw
Predict(kind, text, bet) ==
    IF valid_input_of(user_choice_input_of(kind, text), bet, v4_balance)
    THEN \E draw \in Draws, roll \in BOOLEAN, stop \in StopPoints :
            Accepted(kind, text, bet, draw, roll, stop)
    ELSE Rejected(kind, text, bet)

FreshSession ==
    /\ v4_balance = Tokens(10000)
    /\ v4_jackpot = Tokens(5000)
    /\ v4_streak = 0
    /\ v4_last_signals = <<>>
    /\ v4_history = <<>>

RoundApplied ==
    /\ Len(v4_history') = Len(v4_history) + 1
    /\ SubSeq(v4_history', 1, Len(v4_history)) = v4_history
    /\ LET e == v4_history'[Len(v4_history')]
       IN  /\ v4_balance' = e.balance_after
           /\ v4_balance' # v4_balance \/ e.payout = e.bet_amount
           /\ v4_jackpot' \in {v4_jackpot + e.bet_amount \div 100, Tokens(5000)}
           /\ Len(v4_last_signals') > 0
           /\ v4_last_signals'[Len(v4_last_signals')] = e.jodi
           /\ v4_streak' = IF e.won THEN v4_streak + 1 ELSE 0

\* C2: every "Predict Now!" applies all the mutations of its round (debit,
\* jackpot contribution, signal, streak, payout, history entry) or none.
C2_AllOrNothing ==
    [][last'.op = "predict" => (session' = session \/ RoundApplied)]_vars

MultiplierOf(kind) ==
    CASE kind = "Royal Single"   -> 10
      [] kind = "Golden Jodi"    -> 90
      [] kind = "Triple Crown"   -> 150
      [] kind = "Double Fortune" -> 300
      [] kind = "Royal Flush"    -> 500

\* the rate (percent) of the highest threshold of {3: 10, 5: 20, 10: 50} met
RateFor(streak) ==
    IF streak >= 10 THEN 50
    ELSE IF streak >= 5 THEN 20
    ELSE IF streak >= 3 THEN 10
    ELSE 0

JackpotPaidOrReset ==
    \/ last'.jackpot_win
    \/ last'.jackpot_win_amount > 0
    \/ v4_jackpot' # v4_jackpot + last'.bet_amount \div 100

\* C9: the jackpot is paid out and reset only in a won "Royal Flush"
\* (ConsensusPattern) round, never in a lost round or one of another kind.
C9_JackpotOnlyOnConsensusWin ==
    [][AcceptedStep /\ JackpotPaidOrReset =>
          last'.game_type = "Royal Flush" /\ last'.won]_vars

\* a won Royal Flush round paid the jackpot out
C9_Witness ==
    /\ last.op = "predict"
    /\ last.game_type = "Royal Flush"
    /\ last.won
    /\ last.jackpot_win
    /\ last.jackpot_win_amount > 0
    /\ v4_jackpot = Tokens(5000)

C11_JackpotContribution ==
    [][AcceptedStep =>
          IF last'.jackpot_win
          THEN 100 * (last'.jackpot_win_amount - v4_jackpot) = last'.bet_amount
          ELSE 100 * (v4_jackpot' - v4_jackpot) = last'.bet_amount]_vars

\* the second bet of 5000 won the jackpot: 5000, the 50 of the first round and
\* the 50 of its own
C11_Witness ==
    /\ last.op = "predict"
    /\ last.jackpot_win
    /\ last.bet_amount = Tokens(5000)
    /\ rounds = 2
    /\ last.jackpot_win_amount = Tokens(5100)

\* the combined signals of the last k rounds of the history, in round order
LastJodis(k) ==
    [i \in 1..k |-> v4_history[Len(v4_history) - k + i].jodi]

\* C12: the recent signals are at most 10 and are the combined signals of the
\* last min(10, n) of the n rounds accepted since the reset, in round order
\* (so the eleventh signal evicts the oldest one).
C12_RecentSignals ==
    LET k == IF rounds < 10 THEN rounds ELSE 10
    IN  /\ Len(v4_last_signals) <= 10
        /\ Len(v4_last_signals) = k
        /\ Len(v4_history) >= k
        /\ v4_last_signals = LastJodis(k)

\* the sequence a is the beginning of the sequence b
IsPrefix(a, b) == Len(a) <= Len(b) /\ SubSeq(b, 1, Len(a)) = a

\* C13: between resets the history only grows at its end: an accepted round
\* appends exactly one entry, a rejected "Predict Now!" appends none, and
\* nothing but a reset changes or removes an entry.
C13_HistoryAppendOnly ==
    [][/\ AcceptedStep =>
            Len(v4_history') = Len(v4_history) + 1 /\ IsPrefix(v4_history, v4_history')
       /\ last'.op = "predict" /\ ~last'.valid_input => v4_history' = v4_history
       /\ last'.op # "reset" => IsPrefix(v4_history, v4_history')]_vars

\* C14: from every reachable session, "Reset Simulation" leaves balance
\* 10000, jackpot 5000, streak 0, an empty history and no recent signals,
\* whatever happened before.
C14_ResetRestoresInitial ==
    [][last'.op = "reset" =>
          /\ v4_balance' = Tokens(10000)
          /\ v4_jackpot' = Tokens(5000)
          /\ v4_streak' = 0
          /\ v4_history' = <<>>
          /\ v4_last_signals' = <<>>]_vars

\* a reset has run and the session is the initial one
C14_Witness ==
    /\ last.op = "reset"
    /\ rounds = 0
    /\ v4_balance = Tokens(10000)
    /\ v4_jackpot = Tokens(5000)
    /\ v4_streak = 0
    /\ v4_history = <<>>
    /\ v4_last_signals = <<>>

\* C16: in every reachable state the balance is at least 0: a bet is accepted
\* only up to the balance, and every credit is 0 or more.
C16_BalanceNeverNegative == v4_balance >= 0

\* two lost rounds of 5000 have emptied the balance, and the next bet was
\* refused
C16_Witness ==
    /\ v4_balance = 0
    /\ rounds = 2
    /\ Len(v4_history) = 2
    /\ last.op = "predict"
    /\ last.error = "Insufficient balance!"

\* the number of won entries in a row at the end of the history h
TrailingWins(h) ==
    CHOOSE k \in 0..Len(h) :
        /\ \A i \in (Len(h) - k + 1)..Len(h) : h[i].won
        /\ k < Len(h) => ~h[Len(h) - k].won

\* C17: between rounds the streak is the number of won entries in a row at
\* the end of the history (0 when the history is empty or ends with a loss),
\* and the history has one entry for each round accepted since the reset.
C17_StreakMatchesHistory ==
    /\ v4_streak = TrailingWins(v4_history)
    /\ Len(v4_history) = rounds

(***************************************************************************)
(* check_win on its own: every call with a game type, a typed guess and a  *)
(* draw from the sets below                                                *)
(***************************************************************************)
\* the digits the feeds are drawn from here (their sums pass 10 and wrap)
SampleDigits == {0, 1, 7}

\* the characters of the guesses: the sample digits and a letter
SampleChars == {DigitStr[d + 1] : d \in SampleDigits} \cup {"x"}

Feeds == [1..3 -> SampleDigits]

\* the guesses: every text of up to three characters
Guesses == UNION {[1..n -> SampleChars] : n \in 0..3}

InitWin ==
    /\ InitSession
    /\ last = NoRound("init")
    /\ rounds = 0
    /\ cw \in [pc : {"called"}, game_type : GameTypes, user_choice : Guesses,
               draw1_digits : Feeds, draw2_digits : Feeds, result : {FALSE}]

\* the call returns
CheckWin ==
    /\ cw.pc = "called"
    /\ cw' = [cw EXCEPT !.pc = "returned",
                        !.result = check_win(cw.game_type, cw.user_choice,
                                             cw.draw1_digits, SignalOf(cw.draw1_digits),
                                             cw.draw2_digits, SignalOf(cw.draw2_digits))]
    /\ UNCHANGED <<session, last, rounds>>

NextWin == CheckWin

SpecWin == InitWin /\ [][NextWin]_vars

(***************************************************************************)
(* Properties of check_win                                                 *)
(***************************************************************************)
Returns == cw.pc = "returned"

\* the signal of a feed: the sum of its digits mod 10
Sig(feed) == (feed[1] + feed[2] + feed[3]) % 10

DigitsOf(text) == [i \in 1..Len(text) |-> IntOfChar(text[i])]

HasNonDigit(text) == \E i \in 1..Len(text) : text[i] \notin DigitChars

\* the pattern shape of three digits: 3, 2 or 1 distinct values
Shape(kind, t) ==
    LET distinct == Cardinality({t[1], t[2], t[3]})
    IN  CASE kind = "Triple Crown"   -> distinct = 3
          [] kind = "Double Fortune" -> distinct = 2
          [] kind = "Royal Flush"    -> distinct = 1

Occurrences(t, v) == Cardinality({i \in 1..3 : t[i] = v})

\* the same digits, in any order
SameDigits(a, b) == \A v \in 0..9 : Occurrences(a, v) = Occurrences(b, v)

PatternWins(kind, g, feed1, feed2) ==
    /\ Shape(kind, g)
    /\ \/ SameDigits(g, feed1) /\ Shape(kind, feed1)
       \/ SameDigits(g, feed2) /\ Shape(kind, feed2)

\* a well-formed guess of a text kind wins
WellFormedWins(kind, g, feed1, feed2) ==
    IF kind = "Golden Jodi"
    THEN DigitsOf(g) = <<Sig(feed1), Sig(feed2)>>
    ELSE PatternWins(kind, DigitsOf(g), feed1, feed2)

\* the guess with zeros put before it up to n characters
Padded(g, n) ==
    [i \in 1..n |-> IF i <= n - Len(g) THEN "0" ELSE g[i - (n - Len(g))]]

\* the number a guess of one to three digits writes
DecimalValue(g) ==
    LET d == DigitsOf(g)
    IN  CASE Len(g) = 1 -> d[1]
          [] Len(g) = 2 -> 10 * d[1] + d[2]
          [] Len(g) = 3 -> 100 * d[1] + 10 * d[2] + d[3]

\* C5, as claimed: a guess whose digit count or character set is not the one
\* of its kind never wins.
C5_MalformedNeverWins ==
    Returns /\ Malformed(cw.game_type, cw.user_choice) => cw.result = FALSE

\* C5, as the code has it: check_win returns a boolean for every guess; a
\* guess with a letter loses, and so does a guess of more digits than a text
\* kind asks for and the empty guess of "Royal Single"; a guess of fewer
\* digits than a text kind asks for counts as the guess padded with zeros on
\* the left, and a guess of several digits under "Royal Single" counts as the
\* number it writes.
C5_MalformedEvaluated ==
    Returns /\ Malformed(cw.game_type, cw.user_choice) =>
        LET kind == cw.game_type
            g == cw.user_choice
            n == DigitsAsked(kind)
        IN  /\ cw.result \in BOOLEAN
            /\ IF HasNonDigit(g) THEN cw.result = FALSE
               ELSE IF kind = "Royal Single" THEN
                    IF Len(g) = 0 THEN cw.result = FALSE
                    ELSE cw.result
                           <=> DecimalValue(g) \in {Sig(cw.draw1_digits),
                                                    Sig(cw.draw2_digits)}
               ELSE IF Len(g) > n THEN cw.result = FALSE
               ELSE cw.result
                      <=> WellFormedWins(kind, Padded(g, n), cw.draw1_digits,
                                         cw.draw2_digits)

\* the one-digit guess 7 under "Golden Jodi" has won
C5_Witness ==
    /\ Returns
    /\ cw.game_type = "Golden Jodi"
    /\ cw.user_choice = <<"7">>
    /\ cw.result

Perms3 == {p \in [1..3 -> 1..3] : {p[1], p[2], p[3]} = 1..3}

Permuted(t, p) == [i \in 1..3 |-> t[p[i]]]

\* C6: a three-digit guess of a pattern kind wins iff it has the shape of the
\* kind and has the digits of a feed that has that shape too; the order of
\* the digits of the guess and of either feed does not matter.
C6_PatternWin ==
    Returns /\ cw.game_type \in PatternTypes
            /\ Len(cw.user_choice) = 3 /\ ~HasNonDigit(cw.user_choice) =>
        /\ cw.result <=> PatternWins(cw.game_type, DigitsOf(cw.user_choice),
                                     cw.draw1_digits, cw.draw2_digits)
        /\ \A p \in Perms3 :
              /\ check_win(cw.game_type, Permuted(cw.user_choice, p),
                           cw.draw1_digits, Sig(cw.draw1_digits),
                           cw.draw2_digits, Sig(cw.draw2_digits)) = cw.result
              /\ check_win(cw.game_type, cw.user_choice,
                           Permuted(cw.draw1_digits, p), Sig(cw.draw1_digits),
                           cw.draw2_digits, Sig(cw.draw2_digits)) = cw.result
              /\ check_win(cw.game_type, cw.user_choice,
                           cw.draw1_digits, Sig(cw.draw1_digits),
                           Permuted(cw.draw2_digits, p), Sig(cw.draw2_digits))
                   = cw.result

\* the guess 117 under "Double Fortune" has won against the feed 7, 1, 1
C6_Witness ==
    /\ Returns
    /\ cw.game_type = "Double Fortune"
    /\ cw.user_choice = <<"1", "1", "7">>
    /\ cw.draw1_digits = <<7, 1, 1>>
    /\ cw.draw2_digits = <<0, 1, 7>>
    /\ cw.result

\* C7: a two-digit guess under "Golden Jodi" wins iff its first digit is
\* signal 1 and its second digit is signal 2.
C7_CombinedSignal ==
    Returns /\ cw.game_type = "Golden Jodi"
            /\ Len(cw.user_choice) = 2 /\ ~HasNonDigit(cw.user_choice) =>
        (cw.result <=> /\ IntOfChar(cw.user_choice[1]) = Sig(cw.draw1_digits)
                       /\ IntOfChar(cw.user_choice[2]) = Sig(cw.draw2_digits))

\* the guess 07 has won: signal 1 is 0 and signal 2 is 7
C7_Witness ==
    /\ Returns
    /\ cw.game_type = "Golden Jodi"
    /\ cw.user_choice = <<"0", "7">>
    /\ Sig(cw.draw1_digits) = 0
    /\ Sig(cw.draw2_digits) = 7
    /\ cw.result

\* the three digits in ascending order
Ascending(t) ==
    LET values == {t[1], t[2], t[3]}
        lo == CHOOSE x \in values : \A y \in values : x <= y
        hi == CHOOSE x \in values : \A y \in values : y <= x
    IN  <<lo, t[1] + t[2] + t[3] - lo - hi, hi>>

\* the simplified rule: the guess has the shape of the kind and, put in
\* order, is feed 1 or feed 2 put in order; the shape of the feeds is not
\* looked at
SimplifiedPatternWins(kind, g, feed1, feed2) ==
    /\ Shape(kind, g)
    /\ \/ Ascending(g) = Ascending(feed1)
       \/ Ascending(g) = Ascending(feed2)

\* C15: the pattern test of the feeds is redundant: for every pattern kind,
\* three-digit guess and pair of feeds, check_win returns what the simplified
\* rule gives, which tests the shape of the guess only.
C15_FeedShapeRedundant ==
    Returns /\ cw.game_type \in PatternTypes
            /\ Len(cw.user_choice) = 3 /\ ~HasNonDigit(cw.user_choice) =>
        (cw.result <=> SimplifiedPatternWins(cw.game_type, DigitsOf(cw.user_choice),
                                             cw.draw1_digits, cw.draw2_digits))

\* the guess 017 under "Triple Crown" has won against feed 1 = 7, 1, 0, while
\* feed 2 = 1, 1, 1 has another shape
C15_Witness ==
    /\ Returns
    /\ cw.game_type = "Triple Crown"
    /\ cw.user_choice = <<"0", "1", "7">>
    /\ cw.draw1_digits = <<7, 1, 0>>
    /\ cw.draw2_digits = <<1, 1, 1>>
    /\ cw.result

====
